---------------------------- MODULE Spec2Model ----------------------------
(***************************************************************************)
(* Model of src/app.py: the message catalog T and its lookup tr, the       *)
(* identification call identify_pet_with_qwen with the remote model as an  *)
(* environment, and the page page_pet_identifier that calls it.            *)
(*                                                                         *)
(* Python values that may be a string or None are records                  *)
(* [t |-> "str", v |-> s] / [t |-> "NoneType", v |-> ""], so that a return *)
(* value or a rendered element has one shape whatever it holds.            *)
(* The zh and ko texts of the source are not ASCII; each is written here   *)
(* as a distinct ASCII tag "zh:<key>" / "ko:<key>".  The en texts are the  *)
(* source's.                                                               *)
(***************************************************************************)
EXTENDS Naturals, Sequences, FiniteSets, TLC

\* ------------------------------------------------------------------ bounds
\* Identify invocations started over a whole behaviour (page presses and
\* direct calls together).
MaxCalls == 3

\* The sessions (Streamlit runs one script thread per session).
Sessions == {"s1", "s2"}

\* ------------------------------------------------------------ Python values
Str(s) == [t |-> "str", v |-> s]
None == [t |-> "NoneType", v |-> ""]

\* d.get(k, default) of a Python dict d, modelled as a function.
DictGet(d, k, default) == IF k \in DOMAIN d THEN d[k] ELSE default

\* The empty dict {}.
EmptyDict == <<>>

\* ------------------------------------------------------------------- i18n
LANGS == [English |-> "en", Chinese |-> "zh", Korean |-> "ko"]

T ==
  [ app_title     |-> [en |-> "Animal ID & Encyclopedia", zh |-> "zh:app_title", ko |-> "ko:app_title"],
    nav_home      |-> [en |-> "Home", zh |-> "zh:nav_home", ko |-> "ko:nav_home"],
    nav_pet       |-> [en |-> "Pet Identifier", zh |-> "zh:nav_pet", ko |-> "ko:nav_pet"],
    nav_ency      |-> [en |-> "Animal Encyclopedia", zh |-> "zh:nav_ency", ko |-> "ko:nav_ency"],
    nav_about     |-> [en |-> "About", zh |-> "zh:nav_about", ko |-> "ko:nav_about"],
    home_intro    |-> [en |-> "Upload a photo to identify pets and explore animals by category.",
                       zh |-> "zh:home_intro", ko |-> "ko:home_intro"],
    pet_upload    |-> [en |-> "Upload a pet photo", zh |-> "zh:pet_upload", ko |-> "ko:pet_upload"],
    pet_result    |-> [en |-> "Identification Result", zh |-> "zh:pet_result", ko |-> "ko:pet_result"],
    pet_tip       |-> [en |-> "Tip: Clear face/body photos work best.",
                       zh |-> "zh:pet_tip", ko |-> "ko:pet_tip"],
    no_key_demo   |-> [en |-> "No API key found. Running in demo mode (no real AI call).",
                       zh |-> "zh:no_key_demo", ko |-> "ko:no_key_demo"],
    ency_pick_cat |-> [en |-> "Choose a category", zh |-> "zh:ency_pick_cat", ko |-> "ko:ency_pick_cat"],
    ency_animals  |-> [en |-> "Animals", zh |-> "zh:ency_animals", ko |-> "ko:ency_animals"],
    detail        |-> [en |-> "Details", zh |-> "zh:detail", ko |-> "ko:detail"],
    habitat       |-> [en |-> "Habitat", zh |-> "zh:habitat", ko |-> "ko:habitat"],
    facts         |-> [en |-> "Fun facts", zh |-> "zh:facts", ko |-> "ko:facts"],
    about_text    |-> [en |-> "A lightweight Streamlit app for pet identification and animal knowledge.",
                       zh |-> "zh:about_text", ko |-> "ko:about_text"] ]

\* ---------------------------------------------------------- configuration
\* os.getenv("DASHSCOPE_API_KEY", ""): unset or empty, or a key.
KeyValues == {"", "sk-test"}
DASHSCOPE_BASE_URL == "https://dashscope.aliyuncs.com/compatible-mode/v1"
QWEN_VL_MODEL == "qwen-vl-plus"

\* ------------------------------------------------------------------ images
\* An uploaded file: nothing, a file PIL cannot decode, or a file that decodes
\* to an image.  An image is held as the bytes Image.save(format="PNG") writes
\* for it (a short stand-in sequence).
NoUpload == [t |-> "none", ok |-> FALSE, png |-> <<>>]
CorruptFile == [t |-> "file", ok |-> FALSE, png |-> <<>>]
CatFile == [t |-> "file", ok |-> TRUE, png |-> <<137, 80>>]
DogFile == [t |-> "file", ok |-> TRUE, png |-> <<137, 80, 78>>]
Uploads == {NoUpload, CorruptFile, CatFile, DogFile}

NoImage == [mode |-> "", png |-> <<>>]
\* Image.open(uploaded).convert("RGBA") of a decodable file.
OpenRGBA(up) == [mode |-> "RGBA", png |-> up.png]
\* An image of a mode the PNG writer refuses (Image.save raises OSError for
\* it); only a caller other than the page can hand one in.
FloatImage == [mode |-> "F", png |-> <<>>]
Images == {OpenRGBA(up) : up \in {u \in Uploads : u.ok}} \cup {FloatImage}

\* img.save(buffered, format="PNG") succeeds.
PngWritable(img) == img.mode # "F"

B64Alphabet ==
  << "A","B","C","D","E","F","G","H","I","J","K","L","M","N","O","P",
     "Q","R","S","T","U","V","W","X","Y","Z","a","b","c","d","e","f",
     "g","h","i","j","k","l","m","n","o","p","q","r","s","t","u","v",
     "w","x","y","z","0","1","2","3","4","5","6","7","8","9","+","/" >>

B64Char(n) == B64Alphabet[n + 1]

\* base64.b64encode(bytes).decode(): three bytes to four characters, "=" padded.
RECURSIVE b64encode(_)
b64encode(bs) ==
  IF Len(bs) = 0 THEN ""
  ELSE IF Len(bs) = 1 THEN
    B64Char(bs[1] \div 4) \o B64Char((bs[1] % 4) * 16) \o "=="
  ELSE IF Len(bs) = 2 THEN
    B64Char(bs[1] \div 4) \o B64Char((bs[1] % 4) * 16 + bs[2] \div 16)
      \o B64Char((bs[2] % 16) * 4) \o "="
  ELSE
    B64Char(bs[1] \div 4) \o B64Char((bs[1] % 4) * 16 + bs[2] \div 16)
      \o B64Char((bs[2] % 16) * 4 + bs[3] \div 64) \o B64Char(bs[3] % 64)
      \o b64encode(SubSeq(bs, 4, Len(bs)))

image_to_data_url(img) == "data:image/png;base64," \o b64encode(img.png)

\* ----------------------------------------------------------------- prompts
\* The dict literal of identify_pet_with_qwen, indexed by lang.
Prompts ==
  [ en |-> "You are a pet expert. Identify the pet in the photo.\nReturn:\n1) Species/Breed (if confident)\n2) Key visual cues\n3) Likely age stage (baby/adult/senior)\n4) Care tips (3-5 bullets)\n5) Safety note if uncertain\n\nIf not a pet, say what the main subject is.",
    zh |-> "zh:prompt",
    ko |-> "ko:prompt" ]

\* The demo-result dict literal of page_pet_identifier, indexed by lang.
DemoResult ==
  [ en |-> "Demo result: Looks like a pet photo. Add your API key to enable real identification.",
    zh |-> "zh:demo_result",
    ko |-> "ko:demo_result" ]

\* The remote side's answer to one request, as chat.completions.create hands it
\* to the caller: nothing yet, a completion with its choices' message contents,
\* or an exception with its str().
NoResp == [kind |-> "none", choices |-> <<>>, msg |-> ""]
Completion(cs) == [kind |-> "completion", choices |-> cs, msg |-> ""]
Raised(m) == [kind |-> "exception", choices |-> <<>>, msg |-> m]

\* message.content of a choice is Optional[str].
Texts == {"", "A tabby cat.", "Error: not a pet"}
Contents == {Str(t) : t \in Texts} \cup {None}
ChoiceLists == {<<>>} \cup {<<c>> : c \in Contents}
ExcMsgs == {"", "Connection error."}

NoRequest == [model |-> "", url |-> "", prompt |-> ""]
\* What identify returned: the tuple (result, err_flag), and whether it has.
NoRet == [result |-> None, err_flag |-> None, returned |-> FALSE]
Return(result, err_flag) == [result |-> result, err_flag |-> err_flag, returned |-> TRUE]
NoExc == [type |-> "", msg |-> ""]

\* A rendered Streamlit element.
Elem(kind, body) == [kind |-> kind, body |-> body]

SupportedLangs == {LANGS[l] : l \in DOMAIN LANGS}
\* A locale outside LANGS, for callers other than main.
AllLangs == SupportedLangs \cup {"fr"}

VARIABLES
  DASHSCOPE_API_KEY,  \* module global, read once at import
  catalog,            \* module global T
  pc,                 \* per session: where its script run is
  caller,             \* per session: "page" or "direct" (who called identify)
  lang,               \* per session: the run's locale
  upload,             \* per session: the file_uploader's value
  pressed,            \* per session: whether the result button was pressed
  image,              \* per session: identify's image argument
  client,             \* per session: whether OpenAI(...) was constructed
  data_url,           \* per session: local data_url
  prompt,             \* per session: local prompt
  request,            \* per session: the request handed to create(...)
  resp,               \* per session: the remote side's answer to it
  ret,                \* per session: what identify returned
  exc,                \* per session: the exception that left identify
  display,            \* per session: elements rendered by this run
  reqs,               \* per session: create(...) calls of this invocation
  calls,              \* history: identify invocations started
  requests,           \* history: create(...) calls issued
  trOut               \* the last stand-alone tr(key, lang) call

vars == << DASHSCOPE_API_KEY, catalog, pc, caller, lang, upload, pressed, image,
           client, data_url, prompt, request, resp, ret, exc, display, reqs,
           calls, requests, trOut >>

globals == << DASHSCOPE_API_KEY, catalog >>
idLocals == << client, data_url, prompt, request, resp, ret, exc, reqs >>

\* Mutant of tr: the default-locale tier dropped.
tr_noDefault(key, l) == DictGet(DictGet(catalog, key, EmptyDict), l, key)

\* tr(key, lang): T.get(key, {}).get(lang, T.get(key, {}).get("en", key)).
tr(key, l) ==
  DictGet(DictGet(catalog, key, EmptyDict), l,
          DictGet(DictGet(catalog, key, EmptyDict), "en", key))

NoTr == [key |-> "", lang |-> "", out |-> "", done |-> FALSE]

Init ==
  /\ DASHSCOPE_API_KEY \in KeyValues
  /\ catalog = T
  /\ pc = [w \in Sessions |-> "idle"]
  /\ caller = [w \in Sessions |-> ""]
  /\ lang = [w \in Sessions |-> ""]
  /\ upload = [w \in Sessions |-> NoUpload]
  /\ pressed = [w \in Sessions |-> FALSE]
  /\ image = [w \in Sessions |-> NoImage]
  /\ client = [w \in Sessions |-> FALSE]
  /\ data_url = [w \in Sessions |-> ""]
  /\ prompt = [w \in Sessions |-> ""]
  /\ request = [w \in Sessions |-> NoRequest]
  /\ resp = [w \in Sessions |-> NoResp]
  /\ ret = [w \in Sessions |-> NoRet]
  /\ exc = [w \in Sessions |-> NoExc]
  /\ display = [w \in Sessions |-> <<>>]
  /\ reqs = [w \in Sessions |-> 0]
  /\ calls = 0
  /\ requests = 0
  /\ trOut = NoTr

\* ------------------------------------------------------------ the page
\* Mutant of KeyMissing: the credential check never fires.
KeyMissing_never == FALSE

\* `not DASHSCOPE_API_KEY`
KeyMissing == DASHSCOPE_API_KEY = ""

\* Mutant of Decodable: the decode failure is not noticed.
Decodable_always(up) == TRUE

\* Image.open(uploaded).convert("RGBA") succeeds.
Decodable(up) == up.ok

\* What page_pet_identifier renders before it looks at the upload: header
\* (the source prefixes a paw emoji, written ":paw:" here), caption, the
\* uploader, and the demo-mode warning when there is no key.
PageHead(l) ==
  << Elem("header", Str(":paw: " \o tr("nav_pet", l))),
     Elem("caption", Str(tr("pet_tip", l))),
     Elem("file_uploader", Str(tr("pet_upload", l))) >>
  \o (IF KeyMissing THEN << Elem("warning", Str(tr("no_key_demo", l))) >> ELSE << >>)

ImageElem == Elem("image", Str("img"))
ButtonElem(l) == Elem("button", Str(tr("pet_result", l)))

\* main() with the pet page selected, nothing uploaded: `if uploaded:` is false.
Page_NoUpload(w, label) ==
  /\ pc[w] = "idle"
  /\ pc' = [pc EXCEPT ![w] = "page_done"]
  /\ caller' = [caller EXCEPT ![w] = "page"]
  /\ lang' = [lang EXCEPT ![w] = LANGS[label]]
  /\ upload' = [upload EXCEPT ![w] = NoUpload]
  /\ display' = [display EXCEPT ![w] = PageHead(LANGS[label])]
  /\ UNCHANGED << globals, idLocals, pressed, image, calls, requests, trOut >>

\* Image.open raises: st.error("Invalid image file.") and return.
Page_InvalidImage(w, label, up) ==
  /\ pc[w] = "idle"
  /\ up.t = "file"
  /\ ~Decodable(up)
  /\ pc' = [pc EXCEPT ![w] = "page_done"]
  /\ caller' = [caller EXCEPT ![w] = "page"]
  /\ lang' = [lang EXCEPT ![w] = LANGS[label]]
  /\ upload' = [upload EXCEPT ![w] = up]
  /\ display' = [display EXCEPT ![w] =
        PageHead(LANGS[label]) \o << Elem("error", Str("Invalid image file.")) >>]
  /\ UNCHANGED << globals, idLocals, pressed, image, calls, requests, trOut >>

\* A decodable upload, the button not pressed in this run.
Page_NotPressed(w, label, up) ==
  /\ pc[w] = "idle"
  /\ up.t = "file"
  /\ Decodable(up)
  /\ pc' = [pc EXCEPT ![w] = "page_done"]
  /\ caller' = [caller EXCEPT ![w] = "page"]
  /\ lang' = [lang EXCEPT ![w] = LANGS[label]]
  /\ upload' = [upload EXCEPT ![w] = up]
  /\ display' = [display EXCEPT ![w] =
        PageHead(LANGS[label]) \o << ImageElem, ButtonElem(LANGS[label]) >>]
  /\ UNCHANGED << globals, idLocals, pressed, image, calls, requests, trOut >>

\* A decodable upload and the button pressed: identify_pet_with_qwen(img, lang)
\* is entered.
Page_Pressed(w, label, up) ==
  /\ pc[w] = "idle"
  /\ calls < MaxCalls
  /\ up.t = "file"
  /\ Decodable(up)
  /\ pc' = [pc EXCEPT ![w] = "id_entry"]
  /\ caller' = [caller EXCEPT ![w] = "page"]
  /\ lang' = [lang EXCEPT ![w] = LANGS[label]]
  /\ upload' = [upload EXCEPT ![w] = up]
  /\ pressed' = [pressed EXCEPT ![w] = TRUE]
  /\ image' = [image EXCEPT ![w] = OpenRGBA(up)]
  /\ display' = [display EXCEPT ![w] =
        PageHead(LANGS[label]) \o << ImageElem, ButtonElem(LANGS[label]) >>]
  /\ calls' = calls + 1
  /\ UNCHANGED << globals, idLocals, requests, trOut >>

\* identify_pet_with_qwen(img, l) called by any other caller of the module
\* (a test, an importer), with any image and any locale string.
Direct_Call(w, img, l) ==
  /\ pc[w] = "idle"
  /\ calls < MaxCalls
  /\ pc' = [pc EXCEPT ![w] = "id_entry"]
  /\ caller' = [caller EXCEPT ![w] = "direct"]
  /\ lang' = [lang EXCEPT ![w] = l]
  /\ image' = [image EXCEPT ![w] = img]
  /\ calls' = calls + 1
  /\ UNCHANGED << globals, idLocals, upload, pressed, display, requests, trOut >>

\* ------------------------------------------------ identify_pet_with_qwen
\* `if not DASHSCOPE_API_KEY: return None, "NO_KEY"`
Identify_NoKey(w) ==
  /\ pc[w] = "id_entry"
  /\ KeyMissing
  /\ ret' = [ret EXCEPT ![w] = Return(None, Str("NO_KEY"))]
  /\ pc' = [pc EXCEPT ![w] = "id_returned"]
  /\ UNCHANGED << globals, caller, lang, upload, pressed, image, client, data_url,
                  prompt, request, resp, exc, display, reqs, calls, requests, trOut >>

\* client = OpenAI(api_key=..., base_url=...), outside the try.
Identify_Client(w) ==
  /\ pc[w] = "id_entry"
  /\ ~KeyMissing
  /\ client' = [client EXCEPT ![w] = TRUE]
  /\ pc' = [pc EXCEPT ![w] = "id_encode"]
  /\ UNCHANGED << globals, caller, lang, upload, pressed, image, data_url, prompt,
                  request, resp, ret, exc, display, reqs, calls, requests, trOut >>

\* The constructor raises (the environment's HTTP/proxy setup is the library's
\* to read): nothing catches it.
Identify_ClientRaises(w) ==
  /\ pc[w] = "id_entry"
  /\ ~KeyMissing
  /\ exc' = [exc EXCEPT ![w] = [type |-> "OpenAIError", msg |-> "client"]]
  /\ pc' = [pc EXCEPT ![w] = "id_raised"]
  /\ UNCHANGED << globals, caller, lang, upload, pressed, image, client, data_url,
                  prompt, request, resp, ret, display, reqs, calls, requests, trOut >>

\* data_url = image_to_data_url(image), outside the try.
Identify_Encode(w) ==
  /\ pc[w] = "id_encode"
  /\ PngWritable(image[w])
  /\ data_url' = [data_url EXCEPT ![w] = image_to_data_url(image[w])]
  /\ pc' = [pc EXCEPT ![w] = "id_prompt"]
  /\ UNCHANGED << globals, caller, lang, upload, pressed, image, client, prompt,
                  request, resp, ret, exc, display, reqs, calls, requests, trOut >>

Identify_EncodeRaises(w) ==
  /\ pc[w] = "id_encode"
  /\ ~PngWritable(image[w])
  /\ exc' = [exc EXCEPT ![w] = [type |-> "OSError", msg |-> "cannot write mode F as PNG"]]
  /\ pc' = [pc EXCEPT ![w] = "id_raised"]
  /\ UNCHANGED << globals, caller, lang, upload, pressed, image, client, data_url,
                  prompt, request, resp, ret, display, reqs, calls, requests, trOut >>

\* prompt = {...}[lang], outside the try.
Identify_Prompt(w) ==
  /\ pc[w] = "id_prompt"
  /\ lang[w] \in DOMAIN Prompts
  /\ prompt' = [prompt EXCEPT ![w] = Prompts[lang[w]]]
  /\ pc' = [pc EXCEPT ![w] = "id_create"]
  /\ UNCHANGED << globals, caller, lang, upload, pressed, image, client, data_url,
                  request, resp, ret, exc, display, reqs, calls, requests, trOut >>

Identify_PromptRaises(w) ==
  /\ pc[w] = "id_prompt"
  /\ lang[w] \notin DOMAIN Prompts
  /\ exc' = [exc EXCEPT ![w] = [type |-> "KeyError", msg |-> lang[w]]]
  /\ pc' = [pc EXCEPT ![w] = "id_raised"]
  /\ UNCHANGED << globals, caller, lang, upload, pressed, image, client, data_url,
                  prompt, request, resp, ret, display, reqs, calls, requests, trOut >>

\* client.chat.completions.create(model=..., messages=[image_url, text]): the
\* request leaves and the call waits for the remote side.
Identify_Create(w) ==
  /\ pc[w] = "id_create"
  /\ request' = [request EXCEPT ![w] =
        [model |-> QWEN_VL_MODEL, url |-> data_url[w], prompt |-> prompt[w]]]
  /\ reqs' = [reqs EXCEPT ![w] = reqs[w] + 1]
  /\ requests' = requests + 1
  /\ pc' = [pc EXCEPT ![w] = "id_waiting"]
  /\ UNCHANGED << globals, caller, lang, upload, pressed, image, client, data_url,
                  prompt, resp, ret, exc, display, calls, trOut >>

\* The remote side answers with a completion.  The code hands no timeout to
\* OpenAI(...) or to create(...): no step of the program ends the wait, only
\* an answer or an exception out of create does.
Remote_Complete(w, cs) ==
  /\ pc[w] = "id_waiting"
  /\ resp[w] = NoResp
  /\ resp' = [resp EXCEPT ![w] = Completion(cs)]
  /\ UNCHANGED << globals, pc, caller, lang, upload, pressed, image, client, data_url,
                  prompt, request, ret, exc, display, reqs, calls, requests, trOut >>

\* The call fails: transport, authentication, quota, remote-side error.
Remote_Raise(w, m) ==
  /\ pc[w] = "id_waiting"
  /\ resp[w] = NoResp
  /\ resp' = [resp EXCEPT ![w] = Raised(m)]
  /\ UNCHANGED << globals, pc, caller, lang, upload, pressed, image, client, data_url,
                  prompt, request, ret, exc, display, reqs, calls, requests, trOut >>

\* Mutant of completion: the answer is read from a slot the sessions share.
completion_shared(w) ==
  LET have == {v \in Sessions : resp[v].kind # "none"}
  IN  IF have = {} THEN resp[w] ELSE resp[CHOOSE v \in have : TRUE]

\* The `completion` local of session w's invocation.
completion(w) == resp[w]

\* Whether the body of the try raises: create(...) raised, or choices[0] of an
\* empty list raises IndexError.
TryRaises(c) == c.kind = "exception" \/ (c.kind = "completion" /\ Len(c.choices) = 0)
ExcStr(c) == IF c.kind = "exception" THEN c.msg ELSE "list index out of range"

\* Mutant of SuccessReturn: the text is reformatted on the way out.
SuccessReturn_prefixed(c) == Return(Str("Result: " \o c.choices[1].v), None)

\* `return completion.choices[0].message.content, None`
SuccessReturn(c) == Return(c.choices[1], None)

\* `except Exception as e: return f"Error: {e}", "ERROR"`
ErrorReturn(c) == Return(Str("Error: " \o ExcStr(c)), Str("ERROR"))

\* Mutant of AfterExcept: the request is tried again after a failure.
AfterExcept_retry == "id_create"

\* Where control goes from the except clause: out of the function.
AfterExcept == "id_returned"

Identify_Return(w) ==
  /\ pc[w] = "id_waiting"
  /\ completion(w).kind = "completion"
  /\ ~TryRaises(completion(w))
  /\ ret' = [ret EXCEPT ![w] = SuccessReturn(completion(w))]
  /\ pc' = [pc EXCEPT ![w] = "id_returned"]
  /\ UNCHANGED << globals, caller, lang, upload, pressed, image, client, data_url,
                  prompt, request, resp, exc, display, reqs, calls, requests, trOut >>

Identify_Except(w) ==
  /\ pc[w] = "id_waiting"
  /\ completion(w).kind # "none"
  /\ TryRaises(completion(w))
  /\ ret' = [ret EXCEPT ![w] = ErrorReturn(completion(w))]
  /\ pc' = [pc EXCEPT ![w] = AfterExcept]
  /\ UNCHANGED << globals, caller, lang, upload, pressed, image, client, data_url,
                  prompt, request, resp, exc, display, reqs, calls, requests, trOut >>

\* --------------------------------------------- the page, after identify
\* Mutant of ShowsDemo: any flag at all is taken for the missing key.
ShowsDemo_anyFlag(err_flag) == err_flag # None

\* `if err_flag == "NO_KEY":`
ShowsDemo(err_flag) == err_flag = Str("NO_KEY")

\* st.info + st.markdown(demo text), or st.subheader + st.markdown(result).
ResultElems(r, l) ==
  IF ShowsDemo(r.err_flag)
  THEN << Elem("info", Str(tr("no_key_demo", l))), Elem("markdown", Str(DemoResult[l])) >>
  ELSE << Elem("subheader", Str(tr("pet_result", l))), Elem("markdown", r.result) >>

Page_Result(w) ==
  /\ pc[w] = "id_returned"
  /\ caller[w] = "page"
  /\ display' = [display EXCEPT ![w] = display[w] \o ResultElems(ret[w], lang[w])]
  /\ pc' = [pc EXCEPT ![w] = "page_done"]
  /\ UNCHANGED << globals, idLocals, caller, lang, upload, pressed, image,
                  calls, requests, trOut >>

\* A run is over: the page is rendered, a direct call has returned, or an
\* exception has left identify (and, from the page, the script run).
RunOver(w) ==
  \/ pc[w] = "page_done"
  \/ pc[w] = "id_raised"
  \/ (pc[w] = "id_returned" /\ caller[w] = "direct")

\* The next script run (or call) of the session starts from fresh locals.
Rerun(w) ==
  /\ RunOver(w)
  /\ pc' = [pc EXCEPT ![w] = "idle"]
  /\ caller' = [caller EXCEPT ![w] = ""]
  /\ lang' = [lang EXCEPT ![w] = ""]
  /\ upload' = [upload EXCEPT ![w] = NoUpload]
  /\ pressed' = [pressed EXCEPT ![w] = FALSE]
  /\ image' = [image EXCEPT ![w] = NoImage]
  /\ client' = [client EXCEPT ![w] = FALSE]
  /\ data_url' = [data_url EXCEPT ![w] = ""]
  /\ prompt' = [prompt EXCEPT ![w] = ""]
  /\ request' = [request EXCEPT ![w] = NoRequest]
  /\ resp' = [resp EXCEPT ![w] = NoResp]
  /\ ret' = [ret EXCEPT ![w] = NoRet]
  /\ exc' = [exc EXCEPT ![w] = NoExc]
  /\ display' = [display EXCEPT ![w] = <<>>]
  /\ reqs' = [reqs EXCEPT ![w] = 0]
  /\ UNCHANGED << globals, calls, requests, trOut >>

\* A stand-alone call tr(key, l), for any key and any locale string.
Tr_Call(key, l) ==
  /\ trOut' = [key |-> key, lang |-> l, out |-> tr(key, l), done |-> TRUE]
  /\ UNCHANGED << globals, pc, caller, lang, upload, pressed, image, idLocals,
                  display, calls, requests >>

\* ------------------------------------------------------- specifications
FileUploads == {u \in Uploads : u.t = "file"}

\* The steps of the program itself.
Step(w) ==
  \/ \E label \in DOMAIN LANGS : Page_NoUpload(w, label)
  \/ \E label \in DOMAIN LANGS, up \in FileUploads : Page_InvalidImage(w, label, up)
  \/ \E label \in DOMAIN LANGS, up \in FileUploads : Page_NotPressed(w, label, up)
  \/ \E label \in DOMAIN LANGS, up \in FileUploads : Page_Pressed(w, label, up)
  \/ \E img \in Images, l \in AllLangs : Direct_Call(w, img, l)
  \/ Identify_NoKey(w)
  \/ Identify_Client(w)
  \/ Identify_ClientRaises(w)
  \/ Identify_Encode(w)
  \/ Identify_EncodeRaises(w)
  \/ Identify_Prompt(w)
  \/ Identify_PromptRaises(w)
  \/ Identify_Create(w)
  \/ Identify_Return(w)
  \/ Identify_Except(w)
  \/ Page_Result(w)
  \/ Rerun(w)

\* The steps of the remote side.
Remote(w) ==
  \/ \E cs \in ChoiceLists : Remote_Complete(w, cs)
  \/ \E m \in ExcMsgs : Remote_Raise(w, m)

Next == \E w \in Sessions : Step(w) \/ Remote(w)

Spec == Init /\ [][Next]_vars

\* Once inside identify, a session's thread keeps running: every step of the
\* function and of the page after it is taken when it can be.  Nothing obliges
\* the remote side to answer, nor a user to start a run.
Running(w) ==
  \/ Identify_NoKey(w)
  \/ Identify_Client(w)
  \/ Identify_ClientRaises(w)
  \/ Identify_Encode(w)
  \/ Identify_EncodeRaises(w)
  \/ Identify_Prompt(w)
  \/ Identify_PromptRaises(w)
  \/ Identify_Create(w)
  \/ Identify_Return(w)
  \/ Identify_Except(w)
  \/ Page_Result(w)

FairSpec == Spec /\ \A w \in Sessions : WF_vars(Running(w))

\* tr alone, over keys in and out of the catalog and locales in and out of LANGS.
TrKeys == DOMAIN T \cup {"missing_key", "", "en"}
TrLangs == AllLangs \cup {"", "EN"}
NextTr == \E key \in TrKeys, l \in TrLangs : Tr_Call(key, l)
SpecTr == Init /\ [][NextTr]_vars

\* ------------------------------------------------------------- the claims
NoCredentialOutcome == Return(None, Str("NO_KEY"))
IsNoCredential(r) == r.result = None /\ r.err_flag = Str("NO_KEY")
IsSuccess(r) == r.result.t = "str" /\ r.err_flag = None
IsRemoteFailure(r) == r.result.t = "str" /\ r.result.v # "" /\ r.err_flag = Str("ERROR")

\* Whether the last two elements of a display are a and b.
EndsWith(d, a, b) == Len(d) >= 2 /\ d[Len(d) - 1] = a /\ d[Len(d)] = b
Kinds(d) == {d[i].kind : i \in 1..Len(d)}

\* C1: with no credential configured, an identify call builds no client, issues
\* no request, never ends in a propagated fault, and what it returns is the
\* NoCredential outcome (None, "NO_KEY"), whatever the image and the locale.
C1_NoCredential ==
  DASHSCOPE_API_KEY = "" =>
    /\ requests = 0
    /\ \A w \in Sessions :
         /\ client[w] = FALSE
         /\ reqs[w] = 0
         /\ request[w] = NoRequest
         /\ resp[w] = NoResp
         /\ pc[w] \in {"idle", "id_entry", "id_returned", "page_done"}
         /\ exc[w] = NoExc
         /\ ret[w].returned => ret[w] = NoCredentialOutcome
         /\ (pc[w] \in {"id_returned", "page_done"} /\ image[w] # NoImage) => ret[w].returned

C1_Witness ==
  /\ DASHSCOPE_API_KEY = ""
  /\ \E w \in Sessions : ret[w] = NoCredentialOutcome /\ lang[w] = "fr" /\ image[w] = FloatImage
  /\ \E w \in Sessions : ret[w] = NoCredentialOutcome /\ lang[w] = "ko" /\ caller[w] = "page"

\* C2: with a credential configured, no fault leaves identify: every failure
\* after the credential check ends the call with the RemoteFailure outcome and
\* a non-empty diagnostic.
C2_NoFaultPropagates ==
  DASHSCOPE_API_KEY # "" =>
    \A w \in Sessions :
      /\ pc[w] # "id_raised"
      /\ exc[w] = NoExc
      /\ (ret[w].returned /\ TryRaises(resp[w])) => IsRemoteFailure(ret[w])

\* C3: with a credential configured and a remote call that succeeds with text
\* R, identify returns (R, None): R itself, unchanged, and no flag.
C3_SuccessVerbatim ==
  \A w \in Sessions :
    (/\ ret[w].returned
     /\ DASHSCOPE_API_KEY # ""
     /\ resp[w].kind = "completion"
     /\ Len(resp[w].choices) > 0
     /\ resp[w].choices[1].t = "str")
    => /\ ret[w].result = resp[w].choices[1]
       /\ ret[w].err_flag = None

C3_Witness ==
  \E w \in Sessions :
    /\ ret[w].returned
    /\ resp[w] = Completion(<< Str("Error: not a pet") >>)
    /\ ret[w].result = Str("Error: not a pet")
    /\ lang[w] = "zh"

C5_CallEventuallyReturns ==
  \A w \in Sessions : (pc[w] = "id_waiting") ~> ret[w].returned

\* C6: tr(key, lang) is the three-tier fallback: the catalog's text for
\* (key, lang) if there is one, else its text for (key, "en") if there is one,
\* else key itself; and the catalog is as it was.
C6_TrFallback ==
  /\ catalog = T
  /\ trOut.done =>
       LET k == trOut.key
           l == trOut.lang
       IN  /\ (k \in DOMAIN T /\ l \in DOMAIN T[k]) => trOut.out = T[k][l]
           /\ (k \in DOMAIN T /\ l \notin DOMAIN T[k] /\ "en" \in DOMAIN T[k])
                => trOut.out = T[k]["en"]
           /\ (k \in DOMAIN T /\ l \notin DOMAIN T[k] /\ "en" \notin DOMAIN T[k])
                => trOut.out = k
           /\ k \notin DOMAIN T => trOut.out = k

C6_Witness ==
  /\ trOut.done
  /\ trOut.key = "no_key_demo"
  /\ trOut.lang = "fr"
  /\ trOut.out = "No API key found. Running in demo mode (no real AI call)."

\* C7: an upload that cannot be decoded is rejected before identify: the run
\* ends with the validation error shown, identify is not entered, no request is
\* made for it, and nothing is reported as a RemoteFailure.
C7_InvalidUploadRejected ==
  \A w \in Sessions :
    (upload[w].t = "file" /\ ~upload[w].ok) =>
      /\ pc[w] = "page_done"
      /\ display[w][Len(display[w])] = Elem("error", Str("Invalid image file."))
      /\ Kinds(display[w]) \cap {"image", "button", "info", "subheader", "markdown"} = {}
      /\ ~pressed[w]
      /\ image[w] = NoImage
      /\ ~ret[w].returned
      /\ exc[w] = NoExc
      /\ reqs[w] = 0
      /\ request[w] = NoRequest

C7_Witness ==
  \E w \in Sessions :
    /\ upload[w] = CorruptFile
    /\ pc[w] = "page_done"
    /\ DASHSCOPE_API_KEY # ""
    /\ calls = MaxCalls

\* C8: every value identify returns is exactly one of the three outcomes:
\* (None, "NO_KEY"), (a text, None), (a non-empty diagnostic, "ERROR").
C8_ExactlyOneVariant ==
  \A w \in Sessions :
    ret[w].returned =>
      Cardinality({v \in {"NoCredential", "Success", "RemoteFailure"} :
                     \/ v = "NoCredential" /\ IsNoCredential(ret[w])
                     \/ v = "Success" /\ IsSuccess(ret[w])
                     \/ v = "RemoteFailure" /\ IsRemoteFailure(ret[w])}) = 1

\* C9: on the page, for every supported locale, once the button was pressed and
\* identify returned, the demo-mode message (the catalog's no_key_demo text of
\* the locale, then the demo result) is what is shown if and only if the flag
\* is "NO_KEY"; for any other outcome the returned text is shown under the
\* result heading.  With no credential and locale ko, that is the ko text.
C9_DemoIffNoCredential ==
  \A w \in Sessions :
    (pc[w] = "page_done" /\ pressed[w]) =>
      /\ lang[w] \in SupportedLangs
      /\ ret[w].returned
      /\ IF ret[w].err_flag = Str("NO_KEY")
         THEN /\ EndsWith(display[w],
                          Elem("info", Str(T["no_key_demo"][lang[w]])),
                          Elem("markdown", Str(DemoResult[lang[w]])))
              /\ "subheader" \notin Kinds(display[w])
         ELSE /\ EndsWith(display[w],
                          Elem("subheader", Str(T["pet_result"][lang[w]])),
                          Elem("markdown", ret[w].result))
              /\ "info" \notin Kinds(display[w])
      /\ (\E i \in 1..Len(display[w]) :
            /\ display[w][i].kind \in {"warning", "info"}
            /\ display[w][i].body = Str(T["no_key_demo"][lang[w]]))
         <=> IsNoCredential(ret[w])
      /\ (DASHSCOPE_API_KEY = "" /\ lang[w] = "ko") =>
            /\ IsNoCredential(ret[w])
            /\ display[w][Len(display[w]) - 1] = Elem("info", Str("ko:no_key_demo"))

C9_Witness ==
  /\ DASHSCOPE_API_KEY = ""
  /\ \E w \in Sessions :
       /\ pc[w] = "page_done"
       /\ pressed[w]
       /\ lang[w] = "ko"
       /\ IsNoCredential(ret[w])
       /\ Elem("info", Str("ko:no_key_demo")) \in {display[w][i] : i \in 1..Len(display[w])}

\* The state part of C10: whatever the interleaving, two invocations with the same image, the
\* same locale and the same answer from the remote side to their own request
\* have returned the same value; what an invocation returned is read off the
\* credential and the answer to its own request; the request of each carries
\* its own image and its own locale's prompt; and no step changes the
\* process-wide configuration or the catalog.
C10_SameInputsSameOutcome ==
  \A w, v \in Sessions :
    /\ (/\ ret[w].returned
        /\ ret[v].returned
        /\ image[w] = image[v]
        /\ lang[w] = lang[v]
        /\ resp[w] = resp[v])
       => ret[w] = ret[v]
    /\ ret[w].returned =>
         /\ IsNoCredential(ret[w]) <=> DASHSCOPE_API_KEY = ""
         /\ resp[w].kind = "none" <=> DASHSCOPE_API_KEY = ""
         /\ resp[w].kind = "exception" => ret[w].result = Str("Error: " \o resp[w].msg)
         /\ (resp[w].kind = "completion" /\ Len(resp[w].choices) > 0)
              => ret[w].result = resp[w].choices[1]
    /\ reqs[w] > 0 =>
         request[w] = [model |-> "qwen-vl-plus",
                       url |-> "data:image/png;base64," \o b64encode(image[w].png),
                       prompt |-> Prompts[lang[w]]]

\* C10: identify retains no state between calls and shares none between
\* concurrent calls: the per-invocation statement above holds in every state
\* of every interleaving, and every step leaves DASHSCOPE_API_KEY and the
\* catalog T as they were.
C10_Stateless ==
  /\ []C10_SameInputsSameOutcome
  /\ [][DASHSCOPE_API_KEY' = DASHSCOPE_API_KEY /\ catalog' = catalog]_vars

C10_Witness ==
  /\ ret["s1"].returned
  /\ ret["s2"].returned
  /\ image["s1"] = image["s2"]
  /\ lang["s1"] = lang["s2"]
  /\ resp["s1"] = resp["s2"]
  /\ resp["s1"].kind = "completion"
  /\ calls = MaxCalls

====
